---- MODULE Spec2Model ----
(***************************************************************************)
(* Model of src/transcriber.py: the sequential transcription-and-          *)
(* enrichment pipeline (transcribe_many and what it calls), the recording  *)
(* queue (add_recording_to_queue and what it calls) and the interface      *)
(* events that run them and re-render their results (_apply_language).     *)
(*                                                                         *)
(* Python values are modelled as follows.  A str is a TLA+ string (TLC     *)
(* evaluates Len, SubSeq and \o on strings).  A value whose type the code  *)
(* tests (None / str / dict / anything else) is a tagged record, see       *)
(* PyNone, PyStr, PyDict, PyOther.  A dict produced by the code is a       *)
(* record whose DOMAIN is the set of its keys.  An exception is a record   *)
(* [cls, msg], where msg is str(exc).                                      *)
(***************************************************************************)
EXTENDS Integers, Sequences, FiniteSets, TLC

(***************************************************************************)
(* Bounds of the model.                                                    *)
(***************************************************************************)
MaxFiles == 2
MaxQueue == 2
MaxAdds == 2

(***************************************************************************)
(* Python values.                                                          *)
(***************************************************************************)
PyNone == [kind |-> "none"]
PyStr(s) == [kind |-> "str", v |-> s]
PyDict(p, n, f) == [kind |-> "dict", path |-> p, name |-> n, file |-> f]
PyOther == [kind |-> "other"]

\* truth value of a None-or-str value: `if value`, `not filepath`
Truthy(x) == IF x.kind = "str" THEN x.v # "" ELSE FALSE

(***************************************************************************)
(* str methods and os.path functions, computed character by character.     *)
(***************************************************************************)
CharAt(s, k) == SubSeq(s, k, k)

\* str.rfind(c): the last index of character c in s, 0 when absent
\* (Python's -1, shifted by the 1-based indexing of the model)
RECURSIVE RFindFrom(_, _, _)
RFindFrom(s, c, k) ==
  IF k = 0 THEN 0
  ELSE IF CharAt(s, k) = c THEN k ELSE RFindFrom(s, c, k - 1)

RFind(s, c) == RFindFrom(s, c, Len(s))

\* os.path.basename: what follows the last separator
basename(p) == SubSeq(p, RFind(p, "/") + 1, Len(p))

\* genericpath._splitext: the extension starts at the last dot of the last
\* component, unless that component has only dots before it
RECURSIVE HasNonDot(_, _, _)
HasNonDot(p, from, to) ==
  IF from >= to THEN FALSE
  ELSE IF CharAt(p, from) # "." THEN TRUE ELSE HasNonDot(p, from + 1, to)

splitext_ext(p) ==
  LET sepIndex == RFind(p, "/")
      dotIndex == RFind(p, ".")
  IN IF dotIndex > sepIndex /\ HasNonDot(p, sepIndex + 1, dotIndex)
     THEN SubSeq(p, dotIndex, Len(p))
     ELSE ""

UpperLetters == "ABCDEFGHIJKLMNOPQRSTUVWXYZ"
LowerLetters == "abcdefghijklmnopqrstuvwxyz"

LowerChar(c) ==
  IF \E k \in 1..Len(UpperLetters) : CharAt(UpperLetters, k) = c
  THEN LET k == CHOOSE j \in 1..Len(UpperLetters) : CharAt(UpperLetters, j) = c
       IN CharAt(LowerLetters, k)
  ELSE c

RECURSIVE lower(_)
lower(s) == IF s = "" THEN "" ELSE LowerChar(CharAt(s, 1)) \o lower(Tail(s))

Whitespace == {" ", "\n", "\t"}

\* str.strip(): from the first to the last character that is not
\* whitespace, "" when there is none
strip(s) ==
  LET keep == {k \in 1..Len(s) : CharAt(s, k) \notin Whitespace}
  IN IF keep = {} THEN ""
     ELSE SubSeq(s, CHOOSE k \in keep : \A h \in keep : k <= h,
                    CHOOSE k \in keep : \A h \in keep : k >= h)

(***************************************************************************)
(* Localized texts.  A format string with one replacement field is the     *)
(* record [pre, post] of the text before and after the field.              *)
(***************************************************************************)
LANG_DEFAULT == "it"

LANG_CHOICES == {"it", "en"}

Template(pre, post) == [pre |-> pre, post |-> post]

\* str.format with the one keyword argument the template names
Format(t, arg) == t.pre \o arg \o t.post

TEXTS ==
  [l \in LANG_CHOICES |->
    IF l = "it" THEN
      [prompts |->
         [summary |-> Template(
            "Fai un riassunto schematico del testo seguente. "
            \o "Includi solo gli elementi chiave in un testo sintetico. "
            \o "Non usare elenchi puntati e non aggiungere testo extra.\n\n"
            \o "Testo da riassumere:\n", ""),
          bullets |-> Template(
            "Crea una lista puntata con gli elementi essenziali del testo seguente. "
            \o "Frasi brevi, senza testo extra.\n\n"
            \o "Testo:\n", "")],
       errors |->
         [ffmpeg_not_found |-> "ffmpeg non trovato per la conversione in WAV.",
          wav_conversion_failed |-> "Conversione in WAV non riuscita.",
          file_not_found |-> "File non trovato.",
          transcription_error |->
            Template("Errore durante conversione/trascrizione: ", "")],
       ui |->
         [empty_results |-> "Nessun risultato da mostrare.",
          result_time |-> Template("Tempo: ", "s"),
          pane_transcription_title |-> "Trascrizione",
          pane_summary_title |-> "Riassunto",
          pane_bullets_title |-> "Lista puntata",
          transcription_empty |-> "Trascrizione vuota.",
          summary_placeholder |-> "Riassunto non disponibile.",
          bullets_placeholder |-> "Lista puntata non disponibile.",
          default_audio_name |-> "audio",
          record_added |-> Template("Registrazione aggiunta alla coda: ", ""),
          record_missing |-> "Nessuna registrazione da aggiungere."]]
    ELSE
      [prompts |->
         [summary |-> Template(
            "Provide a structured summary of the following text. "
            \o "Include only the key elements in a concise text. "
            \o "Do not use bullet points and do not add extra text.\n\n"
            \o "Text to summarize:\n", ""),
          bullets |-> Template(
            "Create a bullet list with the essential elements of the following text. "
            \o "Short sentences, without extra text.\n\n"
            \o "Text:\n", "")],
       errors |->
         [ffmpeg_not_found |-> "ffmpeg not found for WAV conversion.",
          wav_conversion_failed |-> "WAV conversion failed.",
          file_not_found |-> "File not found.",
          transcription_error |->
            Template("Error during conversion/transcription: ", "")],
       ui |->
         [empty_results |-> "No results to display.",
          result_time |-> Template("Time: ", "s"),
          pane_transcription_title |-> "Transcription",
          pane_summary_title |-> "Summary",
          pane_bullets_title |-> "Bullet list",
          transcription_empty |-> "Empty transcription.",
          summary_placeholder |-> "Summary not available.",
          bullets_placeholder |-> "Bullet list not available.",
          default_audio_name |-> "audio",
          record_added |-> Template("Recording added to the queue: ", ""),
          record_missing |-> "No recording to add."]]]

\* TEXTS.get(lang, TEXTS[LANG_DEFAULT])
_get_text(lang) ==
  IF lang \in DOMAIN TEXTS THEN TEXTS[lang] ELSE TEXTS[LANG_DEFAULT]

_asr_language(lang) == IF lang = "it" THEN "italian" ELSE "english"

(***************************************************************************)
(* Exceptions: the classes the code raises, catches or lets through, with  *)
(* their base class.                                                       *)
(***************************************************************************)
Exc(cls, msg) == [cls |-> cls, msg |-> msg]

BaseOf ==
  [c \in {"Exception", "RuntimeError", "OSError", "FileNotFoundError",
          "PermissionError", "TimeoutError", "URLError", "HTTPError",
          "ValueError", "JSONDecodeError", "AttributeError",
          "SubprocessError", "CalledProcessError"} |->
     CASE c = "Exception" -> "Exception"
       [] c = "RuntimeError" -> "Exception"
       [] c = "OSError" -> "Exception"
       [] c = "FileNotFoundError" -> "OSError"
       [] c = "PermissionError" -> "OSError"
       [] c = "TimeoutError" -> "OSError"
       [] c = "URLError" -> "OSError"
       [] c = "HTTPError" -> "URLError"
       [] c = "ValueError" -> "Exception"
       [] c = "JSONDecodeError" -> "ValueError"
       [] c = "AttributeError" -> "Exception"
       [] c = "SubprocessError" -> "Exception"
       [] c = "CalledProcessError" -> "SubprocessError"]

\* issubclass(c, d), which is what an except clause tests
RECURSIVE IsSubclass(_, _)
IsSubclass(c, d) ==
  IF c = d THEN TRUE
  ELSE IF BaseOf[c] = c THEN FALSE ELSE IsSubclass(BaseOf[c], d)

(***************************************************************************)
(* The environment of a batch.                                             *)
(***************************************************************************)
\* interface language codes: the two supported ones and an unknown one
LangCodes == LANG_CHOICES \cup {"fr"}

\* the files on disk before the batch; they are not touched by it
ExistingFiles == {"rec/a.WAV", "rec/b.mp3"}

\* the entries a batch may be given: None, the empty path, a path that is
\* not on disk, a native-format file, a file that needs conversion
BatchPaths ==
  {PyNone, PyStr(""), PyStr("gone.mp3"), PyStr("rec/a.WAV"), PyStr("rec/b.mp3")}

\* the converter binary: on PATH and working, not on PATH, or on PATH but
\* not executable
FfmpegStates == {"installed", "absent", "not_executable"}

\* what the speech-recognition pipeline may return as result["text"]
AsrTexts == {" ciao mondo ", " \n"}

\* what the text-generation endpoint may return as the "response" field
OllamaResponses == {" punti chiave \n"}

\* the ways a text-generation call fails: connection refused (URLError; a
\* non-2xx status raises its subclass HTTPError and is caught the same way),
\* a body that is not JSON (JSONDecodeError), no response within the
\* timeout (TimeoutError, raised by the socket while the response is
\* awaited)
OllamaFailures ==
  {Exc("URLError", "<urlopen error [Errno 111] Connection refused>"),
   Exc("JSONDecodeError", "Expecting value: line 1 column 1 (char 0)"),
   Exc("TimeoutError", "timed out")}

AsrFailures == {Exc("RuntimeError", "CUDA out of memory")}

RECURSIVE SeqsUpTo(_, _)
SeqsUpTo(S, n) ==
  IF n = 0 THEN {<<>>}
  ELSE LET shorter == SeqsUpTo(S, n - 1)
       IN shorter \cup {Append(q, x) : q \in shorter, x \in S}

PyList(items) == [kind |-> "list", items |-> items]

(***************************************************************************)
(* State.                                                                  *)
(***************************************************************************)
VARIABLES
  \* the arguments of the running transcribe_many call
  files, summarize, bullet_list, lang,
  \* the environment: the converter binary, the temporary directory, the
  \* number of temporary files created so far, the clock (in seconds)
  ffmpeg, tmpfiles, tmp_seq, now,
  \* the position in transcribe_many and its locals
  pc, i, results, temp_wav, source_path, exc,
  \* the locals of _transcribe_file
  start, text, summary,
  \* what transcribe_many returned
  ret,
  \* every call made to the converter, the speech-recognition pipeline, the
  \* text-generation endpoint and os.remove, in order
  calls,
  \* the interface components the queue handler reads and writes
  file_input, record_input, record_status, lang_select,
  \* history of the queue: its first value, the paths appended since, the
  \* arguments and results of the last add_recording_to_queue call
  queue0, appended, last_add,
  \* the other interface components: the display, the stored results, the
  \* two checkboxes; the language the loaded model is configured with
  output_html, results_state, summary_input, bullets_input, model_language,
  \* history of the interface: the number of events handled, the last one
  ops, last_op

batch_vars ==
  <<files, summarize, bullet_list, lang, ffmpeg, tmpfiles, tmp_seq, now, pc, i,
    results, temp_wav, source_path, exc, start, text, summary, ret, calls>>

queue_vars ==
  <<file_input, record_input, record_status, lang_select, queue0, appended,
    last_add>>

ui_vars ==
  <<output_html, results_state, summary_input, bullets_input, model_language,
    ops, last_op>>

vars == <<batch_vars, queue_vars, ui_vars>>

NoExc == Exc("", "")

NoRet == [html |-> <<>>, results |-> <<>>, returned |-> FALSE]

Call(op, idx, arg, hint, out, val) ==
  [op |-> op, idx |-> idx, arg |-> arg, hint |-> hint, out |-> out, val |-> val]

\* os.path.exists
path_exists(p) == p \in ExistingFiles \cup tmpfiles

\* dict.get(key, default)
Get(d, key, default) == IF key \in DOMAIN d THEN d[key] ELSE default

(***************************************************************************)
(* _render_results.  The markup is kept as a structure: the grid is the    *)
(* sequence of its cards, a card the record of its title, its time line    *)
(* and its panes.  The empty string the code returns for no items is the   *)
(* record EmptyMarkup.                                                     *)
(***************************************************************************)
HtmlEscapeChar(c) ==
  CASE c = "&" -> "&amp;"
    [] c = "<" -> "&lt;"
    [] c = ">" -> "&gt;"
    [] c = "\"" -> "&quot;"
    [] c = "'" -> "&#x27;"
    [] OTHER -> c

HtmlSpecial == {"&", "<", ">", "\"", "'"}

\* html.escape: every special character replaced, the rest kept
RECURSIVE html_escape(_)
html_escape(s) ==
  IF \E k \in 1..Len(s) : CharAt(s, k) \in HtmlSpecial
  THEN LET k == CHOOSE j \in 1..Len(s) :
                  /\ CharAt(s, j) \in HtmlSpecial
                  /\ \A h \in 1..(j - 1) : CharAt(s, h) \notin HtmlSpecial
       IN SubSeq(s, 1, k - 1) \o HtmlEscapeChar(CharAt(s, k))
            \o html_escape(SubSeq(s, k + 1, Len(s)))
  ELSE s

\* "{seconds:.2f}" of a whole number of seconds
FormatSeconds(n) == ToString(n) \o ".00"

EmptyMarkup == [kind |-> "text", value |-> ""]

Pane(title, raw, placeholder) ==
  [title |-> html_escape(title),
   data_copy |-> html_escape(raw),
   disabled |-> (raw = ""),
   body |-> IF html_escape(raw) # "" THEN html_escape(raw)
            ELSE html_escape(placeholder)]

Card(item, summarize_enabled, bullets_enabled, ui) ==
  [title |-> html_escape(Get(item, "file", ui.default_audio_name)),
   meta |-> html_escape(Format(ui.result_time,
                               FormatSeconds(Get(item, "seconds", 0)))),
   panes |->
     <<Pane(ui.pane_transcription_title, Get(item, "text", ""),
            ui.transcription_empty)>>
     \o (IF summarize_enabled
         THEN <<Pane(ui.pane_summary_title, Get(item, "summary", ""),
                     ui.summary_placeholder)>>
         ELSE <<>>)
     \o (IF bullets_enabled
         THEN <<Pane(ui.pane_bullets_title, Get(item, "bullets", ""),
                     ui.bullets_placeholder)>>
         ELSE <<>>)]

_render_results(items, summarize_enabled, bullets_enabled, l) ==
  LET ui == _get_text(l).ui
  IN IF items = <<>> THEN EmptyMarkup
     ELSE [kind |-> "grid",
           cards |-> [k \in 1..Len(items) |->
                        Card(items[k], summarize_enabled, bullets_enabled, ui)]]

(***************************************************************************)
(* _needs_wav_conversion and _convert_to_temp_wav.                         *)
(***************************************************************************)
_needs_wav_conversion(filepath) == lower(splitext_ext(filepath)) # ".wav"

\* tempfile.NamedTemporaryFile(prefix="whisper_tmp_", suffix=".wav"): a
\* name no other temporary file has
TempName(n) == "/tmp/whisper_tmp_" \o ToString(n) \o ".wav"

\* what subprocess.run(cmd, check=True) does: "ok", or the exception raised
FfmpegOutcomes(state) ==
  CASE state = "absent" ->
         {Exc("FileNotFoundError",
              "[Errno 2] No such file or directory: 'ffmpeg'")}
    [] state = "not_executable" ->
         {Exc("PermissionError", "[Errno 13] Permission denied: 'ffmpeg'")}
    [] OTHER ->
         {NoExc,
          Exc("CalledProcessError",
              "Command 'ffmpeg' returned non-zero exit status 1.")}

\* variant: a missing binary is reported as a failed conversion
_convert_to_temp_wav_one_message(name, l, out) ==
  LET errors == _get_text(l).errors
  IN IF out = NoExc
     THEN [raised |-> NoExc, on_disk |-> TRUE]
     ELSE IF IsSubclass(out.cls, "FileNotFoundError")
               \/ IsSubclass(out.cls, "CalledProcessError")
     THEN [raised |-> Exc("RuntimeError", errors.wav_conversion_failed),
           on_disk |-> FALSE]
     ELSE [raised |-> out, on_disk |-> TRUE]

\* _convert_to_temp_wav(filepath, lang) when the temporary file is `name`
\* and subprocess.run ends as `out` (NoExc: it returned): the exception the
\* function raises (NoExc: it returns `name`) and whether the temporary
\* file is still on disk when it ends
_convert_to_temp_wav(name, l, out) ==
  LET errors == _get_text(l).errors
  IN IF out = NoExc
     THEN [raised |-> NoExc, on_disk |-> TRUE]
     ELSE IF IsSubclass(out.cls, "FileNotFoundError")
     THEN [raised |-> Exc("RuntimeError", errors.ffmpeg_not_found),
           on_disk |-> FALSE]
     ELSE IF IsSubclass(out.cls, "CalledProcessError")
     THEN [raised |-> Exc("RuntimeError", errors.wav_conversion_failed),
           on_disk |-> FALSE]
     ELSE [raised |-> out, on_disk |-> TRUE]

(***************************************************************************)
(* _ollama_summary and _ollama_bullets.                                    *)
(***************************************************************************)
\* the result of the request: Ok(response) or Failed(exception)
Ok(v) == [ok |-> TRUE, v |-> v, e |-> NoExc]
Failed(e) == [ok |-> FALSE, v |-> "", e |-> e]

OllamaOutcomes ==
  {Ok(r) : r \in OllamaResponses} \cup {Failed(e) : e \in OllamaFailures}

\* the value returned, or the exception that leaves the function: the
\* try block returns the stripped response, the except clause returns ""
_ollama_summary(out) ==
  IF out.ok THEN [raised |-> NoExc, value |-> strip(out.v)]
  ELSE IF \E c \in {"URLError", "HTTPError", "JSONDecodeError"} :
            IsSubclass(out.e.cls, c)
       THEN [raised |-> NoExc, value |-> ""]
       ELSE [raised |-> out.e, value |-> ""]

_ollama_bullets(out) ==
  IF out.ok THEN [raised |-> NoExc, value |-> strip(out.v)]
  ELSE IF \E c \in {"URLError", "HTTPError", "JSONDecodeError"} :
            IsSubclass(out.e.cls, c)
       THEN [raised |-> NoExc, value |-> ""]
       ELSE [raised |-> out.e, value |-> ""]

summary_prompt(t, l) == Format(_get_text(l).prompts.summary, t)

bullets_prompt(t, l) == Format(_get_text(l).prompts.bullets, t)

(***************************************************************************)
(* transcribe_many, one step per call it makes to the outside.             *)
(***************************************************************************)
BatchFiles == {PyNone} \cup {PyList(q) : q \in SeqsUpTo(BatchPaths, MaxFiles)}

QueueIdle ==
  /\ file_input = PyNone
  /\ record_input = PyNone
  /\ record_status = ""
  /\ lang_select = LANG_DEFAULT
  /\ queue0 = PyNone
  /\ appended = <<>>
  /\ last_add = [called |-> FALSE]

\* the interface as it is built: results_state = gr.State([]), a display
\* with no value, both checkboxes unticked, the model configured with the
\* default language
UiIdle ==
  /\ output_html = EmptyMarkup
  /\ results_state = <<>>
  /\ summary_input = FALSE
  /\ bullets_input = FALSE
  /\ model_language = _asr_language(LANG_DEFAULT)
  /\ ops = 0
  /\ last_op = "init"

Init ==
  /\ files \in BatchFiles
  /\ summarize \in BOOLEAN
  /\ bullet_list \in BOOLEAN
  /\ lang \in LangCodes
  /\ ffmpeg \in FfmpegStates
  /\ tmpfiles = {}
  /\ tmp_seq = 0
  /\ now = 0
  /\ pc = "start"
  /\ i = 0
  /\ results = <<>>
  /\ temp_wav = PyNone
  /\ source_path = ""
  /\ exc = NoExc
  /\ start = 0
  /\ text = ""
  /\ summary = ""
  /\ ret = NoRet
  /\ calls = <<>>
  /\ QueueIdle
  /\ UiIdle

Items == IF files.kind = "list" THEN files.items ELSE <<>>

\* the record appended for a path that is missing or not on disk
NotFoundRecord(filepath, l) ==
  [file |-> basename(IF Truthy(filepath) THEN filepath.v
                     ELSE _get_text(l).ui.default_audio_name),
   text |-> _get_text(l).errors.file_not_found,
   seconds |-> 0]

\* the record appended by the except clause
ErrorRecord(original_name, e, l) ==
  [file |-> original_name,
   text |-> Format(_get_text(l).errors.transcription_error, e.msg),
   summary |-> "",
   bullets |-> "",
   seconds |-> 0]

\* the record _transcribe_file returns
TranscriptRecord(filepath, display_name, t, s, b, elapsed) ==
  [file |-> IF display_name # "" THEN display_name ELSE basename(filepath),
   text |-> t,
   summary |-> s,
   bullets |-> b,
   seconds |-> elapsed]

\* `if not files: return _render_results([], ...), []`, else the loop starts
Start ==
  /\ pc = "start"
  /\ IF Items = <<>>
     THEN /\ ret' = [html |-> _render_results(<<>>, summarize, bullet_list, lang),
                     results |-> <<>>, returned |-> TRUE]
          /\ pc' = "done"
          /\ i' = i
     ELSE /\ ret' = ret
          /\ pc' = "loop"
          /\ i' = 1
  /\ UNCHANGED <<files, summarize, bullet_list, lang, ffmpeg, tmpfiles, tmp_seq,
                 now, results, temp_wav, source_path, exc, start, text, summary,
                 calls, queue_vars, ui_vars>>

\* the loop is over: return _render_results(results, ...), results
Return ==
  /\ pc = "loop"
  /\ i > Len(Items)
  /\ ret' = [html |-> _render_results(results, summarize, bullet_list, lang),
             results |-> results, returned |-> TRUE]
  /\ pc' = "done"
  /\ UNCHANGED <<files, summarize, bullet_list, lang, ffmpeg, tmpfiles, tmp_seq,
                 now, i, results, temp_wav, source_path, exc, start, text,
                 summary, calls, queue_vars, ui_vars>>

\* variant: a missing file is skipped without a record
NotFound_no_record ==
  /\ pc = "loop"
  /\ i <= Len(Items)
  /\ IF Truthy(Items[i]) THEN ~(Items[i].v \in ExistingFiles \cup tmpfiles) ELSE TRUE
  /\ i' = i + 1
  /\ UNCHANGED <<files, summarize, bullet_list, lang, ffmpeg, tmpfiles, tmp_seq,
                 now, pc, results, temp_wav, source_path, exc, start, text,
                 summary, ret, calls, queue_vars, ui_vars>>

FileMissing(filepath) ==
  IF Truthy(filepath) THEN ~path_exists(filepath.v) ELSE TRUE

\* `if not filepath or not os.path.exists(filepath)`: append and continue
NotFound ==
  /\ pc = "loop"
  /\ i <= Len(Items)
  /\ FileMissing(Items[i])
  /\ results' = Append(results, NotFoundRecord(Items[i], lang))
  /\ i' = i + 1
  /\ UNCHANGED <<files, summarize, bullet_list, lang, ffmpeg, tmpfiles, tmp_seq,
                 now, pc, temp_wav, source_path, exc, start, text, summary, ret,
                 calls, queue_vars, ui_vars>>

\* temp_wav = None, then the try block up to the call of the converter or
\* of _transcribe_file
BeginFile ==
  /\ pc = "loop"
  /\ i <= Len(Items)
  /\ ~FileMissing(Items[i])
  /\ temp_wav' = PyNone
  /\ IF _needs_wav_conversion(Items[i].v)
     THEN /\ pc' = "convert"
          /\ source_path' = source_path
     ELSE /\ pc' = "asr"
          /\ source_path' = Items[i].v
  /\ UNCHANGED <<files, summarize, bullet_list, lang, ffmpeg, tmpfiles, tmp_seq,
                 now, i, results, exc, start, text, summary, ret, calls,
                 queue_vars, ui_vars>>

\* temp_wav = _convert_to_temp_wav(filepath, lang); source_path = temp_wav
Convert ==
  /\ pc = "convert"
  /\ \E out \in FfmpegOutcomes(ffmpeg) :
       LET name == TempName(tmp_seq + 1)
           r == _convert_to_temp_wav(name, lang, out)
       IN /\ tmp_seq' = tmp_seq + 1
          /\ now' = now + 1
          /\ calls' = Append(calls, Call("ffmpeg", i, Items[i].v, name,
                                        IF out = NoExc THEN "ok" ELSE out.cls, ""))
          /\ tmpfiles' = IF r.on_disk THEN tmpfiles \cup {name} ELSE tmpfiles
          /\ IF r.raised = NoExc
             THEN /\ temp_wav' = PyStr(name)
                  /\ source_path' = name
                  /\ exc' = exc
                  /\ pc' = "asr"
             ELSE /\ temp_wav' = temp_wav
                  /\ source_path' = source_path
                  /\ exc' = r.raised
                  /\ pc' = "except"
  /\ UNCHANGED <<files, summarize, bullet_list, lang, ffmpeg, i, results, start,
                 text, summary, ret, queue_vars, ui_vars>>

AsrOutcomes == {Ok(t) : t \in AsrTexts} \cup {Failed(e) : e \in AsrFailures}

\* _transcribe_file: start = perf_counter(); result = _ASR(...);
\* text = result.get("text", "").strip()
Asr ==
  /\ pc = "asr"
  /\ \E out \in AsrOutcomes :
       /\ start' = now
       /\ now' = now + 1
       /\ calls' = Append(calls, Call("asr", i, source_path, _asr_language(lang),
                                     IF out.ok THEN "ok" ELSE out.e.cls, out.v))
       /\ IF out.ok
          THEN /\ text' = strip(out.v)
               /\ exc' = exc
               /\ pc' = "summary"
          ELSE /\ text' = text
               /\ exc' = out.e
               /\ pc' = "except"
  /\ UNCHANGED <<files, summarize, bullet_list, lang, ffmpeg, tmpfiles, tmp_seq,
                 i, results, temp_wav, source_path, summary, ret, queue_vars, ui_vars>>

\* variant: the summary is requested whatever the transcript
WantsSummary_any_text(flag, t) == flag

\* `if summarize and text`
WantsSummary(flag, t) == flag /\ t # ""

\* `if bullet_list and text`
WantsBullets(flag, t) == flag /\ t # ""

\* variant: only the converter's RuntimeError is caught
CaughtByBatch_runtime_only(e) == IsSubclass(e.cls, "RuntimeError")

\* `except Exception as exc`
CaughtByBatch(e) == IsSubclass(e.cls, "Exception")

\* summary = ""; if summarize and text: summary = _ollama_summary(text, lang)
Summary ==
  /\ pc = "summary"
  /\ IF WantsSummary(summarize, text)
     THEN \E out \in OllamaOutcomes :
            LET r == _ollama_summary(out)
            IN /\ now' = now + 1
               /\ calls' = Append(calls, Call("summary", i, summary_prompt(text, lang),
                                             "", IF out.ok THEN "ok" ELSE out.e.cls,
                                             out.v))
               /\ IF r.raised = NoExc
                  THEN /\ summary' = r.value
                       /\ exc' = exc
                       /\ pc' = "bullets"
                  ELSE /\ summary' = summary
                       /\ exc' = r.raised
                       /\ pc' = "except"
     ELSE /\ summary' = ""
          /\ pc' = "bullets"
          /\ UNCHANGED <<now, calls, exc>>
  /\ UNCHANGED <<files, summarize, bullet_list, lang, ffmpeg, tmpfiles, tmp_seq,
                 i, results, temp_wav, source_path, start, text, ret, queue_vars, ui_vars>>

\* bullets = ""; if bullet_list and text: bullets = _ollama_bullets(text, lang);
\* elapsed = perf_counter() - start; the record is returned and appended
Bullets ==
  /\ pc = "bullets"
  /\ IF WantsBullets(bullet_list, text)
     THEN \E out \in OllamaOutcomes :
            LET r == _ollama_bullets(out)
            IN /\ now' = now + 1
               /\ calls' = Append(calls, Call("bullets", i, bullets_prompt(text, lang),
                                             "", IF out.ok THEN "ok" ELSE out.e.cls,
                                             out.v))
               /\ IF r.raised = NoExc
                  THEN /\ results' = Append(results,
                            TranscriptRecord(source_path, basename(Items[i].v), text,
                                             summary, r.value, now' - start))
                       /\ exc' = exc
                       /\ pc' = "finally"
                  ELSE /\ results' = results
                       /\ exc' = r.raised
                       /\ pc' = "except"
     ELSE /\ results' = Append(results,
               TranscriptRecord(source_path, basename(Items[i].v), text, summary,
                                "", now - start))
          /\ pc' = "finally"
          /\ UNCHANGED <<now, calls, exc>>
  /\ UNCHANGED <<files, summarize, bullet_list, lang, ffmpeg, tmpfiles, tmp_seq,
                 i, temp_wav, source_path, start, text, summary, ret, queue_vars, ui_vars>>

\* except Exception as exc: the error record is appended
Except ==
  /\ pc = "except"
  /\ CaughtByBatch(exc)
  /\ results' = Append(results, ErrorRecord(basename(Items[i].v), exc, lang))
  /\ exc' = NoExc
  /\ pc' = "finally"
  /\ UNCHANGED <<files, summarize, bullet_list, lang, ffmpeg, tmpfiles, tmp_seq,
                 now, i, temp_wav, source_path, start, text, summary, ret, calls,
                 queue_vars, ui_vars>>

\* finally: if temp_wav and os.path.exists(temp_wav): os.remove(temp_wav);
\* then the next file.  os.remove is taken to succeed on a file the process
\* has just created.
Finally ==
  /\ pc = "finally"
  /\ IF Truthy(temp_wav) /\ path_exists(temp_wav.v)
     THEN /\ tmpfiles' = tmpfiles \ {temp_wav.v}
          /\ calls' = Append(calls, Call("remove", i, temp_wav.v, "", "ok", ""))
     ELSE UNCHANGED <<tmpfiles, calls>>
  /\ i' = i + 1
  /\ pc' = "loop"
  /\ UNCHANGED <<files, summarize, bullet_list, lang, ffmpeg, tmp_seq, now,
                 results, temp_wav, source_path, exc, start, text, summary, ret,
                 queue_vars, ui_vars>>

Next ==
  \/ Start
  \/ Return
  \/ NotFound
  \/ BeginFile
  \/ Convert
  \/ Asr
  \/ Summary
  \/ Bullets
  \/ Except
  \/ Finally

Spec == Init /\ [][Next]_vars

(***************************************************************************)
(* The recording queue: _extract_recording_path, _normalize_files and      *)
(* add_recording_to_queue.  A dict entry is the record of the values it    *)
(* has under "path", "name" and "file", "" standing for a key that is      *)
(* absent or holds None or "".                                             *)
(***************************************************************************)
\* the first value that is true among those of "path", "name", "file";
\* `a or b or c` and the loop over the keys agree on it
FirstTrue(d) ==
  IF d.path # "" THEN d.path ELSE IF d.name # "" THEN d.name ELSE d.file

_extract_recording_path(recording) ==
  CASE recording.kind = "none" -> PyNone
    [] recording.kind = "str" -> recording
    [] recording.kind = "dict" ->
         IF FirstTrue(recording) # "" THEN PyStr(FirstTrue(recording)) ELSE PyNone
    [] OTHER -> PyNone

\* the loop body of _normalize_files: what one entry adds to the list
NormalizedEntry(entry) ==
  CASE entry.kind = "str" -> <<entry>>
    [] entry.kind = "dict" ->
         IF FirstTrue(entry) # "" THEN <<PyStr(FirstTrue(entry))>> ELSE <<>>
    [] OTHER -> <<>>

RECURSIVE NormalizeItems(_)
NormalizeItems(items) ==
  IF items = <<>> THEN <<>>
  ELSE NormalizedEntry(Head(items)) \o NormalizeItems(Tail(items))

\* `if not files: return []`, else the entries normalized in order
_normalize_files(f) ==
  IF f.kind = "none" THEN <<>> ELSE NormalizeItems(f.items)

\* variant: with nothing to add the list is cleared
add_recording_to_queue_clears(recording, f, l) ==
  LET ui == _get_text(l).ui
      recording_path == _extract_recording_path(recording)
  IN IF ~Truthy(recording_path)
     THEN [files |-> PyList(<<>>),
           status |-> ui.record_missing,
           recording |-> PyNone]
     ELSE [files |-> PyList(Append(_normalize_files(f), recording_path)),
           status |-> Format(ui.record_added, basename(recording_path.v)),
           recording |-> PyNone]

\* variant: the recording replaces the list
add_recording_to_queue_replaces(recording, f, l) ==
  LET ui == _get_text(l).ui
      recording_path == _extract_recording_path(recording)
  IN IF ~Truthy(recording_path)
     THEN [files |-> PyList(_normalize_files(f)),
           status |-> ui.record_missing,
           recording |-> PyNone]
     ELSE [files |-> PyList(<<recording_path>>),
           status |-> Format(ui.record_added, basename(recording_path.v)),
           recording |-> PyNone]

\* the tuple add_recording_to_queue returns
add_recording_to_queue(recording, f, l) ==
  LET ui == _get_text(l).ui
      recording_path == _extract_recording_path(recording)
  IN IF ~Truthy(recording_path)
     THEN [files |-> PyList(_normalize_files(f)),
           status |-> ui.record_missing,
           recording |-> PyNone]
     ELSE [files |-> PyList(Append(_normalize_files(f), recording_path)),
           status |-> Format(ui.record_added, basename(recording_path.v)),
           recording |-> PyNone]

\* the entries of an upload list: bare paths (one of them empty), records
\* with a path under "path" or only under "name", a record with no
\* recognized key, and None
QueueEntries ==
  {PyStr("rec/a.WAV"), PyStr(""), PyDict("up/c.mp3", "c.mp3", ""),
   PyDict("", "up/d.ogg", ""), PyDict("", "", ""), PyNone}

QueueFiles == {PyNone} \cup {PyList(q) : q \in SeqsUpTo(QueueEntries, MaxQueue)}

\* what the recorder may hold: nothing, an empty path, a path, records with
\* and without a path, a value of another type
Recordings ==
  {PyNone, PyStr(""), PyStr("/tmp/gradio/mic/audio.wav"),
   PyDict("", "", "/tmp/gradio/mic/take2.wav"), PyDict("", "", ""), PyOther}

BatchIdle ==
  /\ files = PyNone
  /\ summarize = FALSE
  /\ bullet_list = FALSE
  /\ lang = LANG_DEFAULT
  /\ ffmpeg = "installed"
  /\ tmpfiles = {}
  /\ tmp_seq = 0
  /\ now = 0
  /\ pc = "idle"
  /\ i = 0
  /\ results = <<>>
  /\ temp_wav = PyNone
  /\ source_path = ""
  /\ exc = NoExc
  /\ start = 0
  /\ text = ""
  /\ summary = ""
  /\ ret = NoRet
  /\ calls = <<>>

InitQueue ==
  /\ file_input \in QueueFiles
  /\ queue0 = file_input
  /\ record_input = PyNone
  /\ record_status = ""
  /\ lang_select \in LangCodes
  /\ appended = <<>>
  /\ last_add = [called |-> FALSE]
  /\ BatchIdle
  /\ UiIdle

\* the recorder component takes a new value
Capture ==
  /\ \E r \in Recordings : record_input' = r
  /\ UNCHANGED <<file_input, record_status, lang_select, queue0, appended,
                 last_add, batch_vars, ui_vars>>

\* add_record_btn.click: inputs [record_input, file_input, lang_select],
\* outputs [file_input, record_status, record_input]
AddRecording ==
  LET r == add_recording_to_queue(record_input, file_input, lang_select)
      present == Truthy(_extract_recording_path(record_input))
  IN /\ present => Len(appended) < MaxAdds
     /\ file_input' = r.files
     /\ record_status' = r.status
     /\ record_input' = r.recording
     /\ appended' = IF present
                    THEN Append(appended, _extract_recording_path(record_input))
                    ELSE appended
     /\ last_add' = [called |-> TRUE, recording |-> record_input,
                     files |-> file_input, lang |-> lang_select,
                     out_files |-> r.files, status |-> r.status]
     /\ UNCHANGED <<lang_select, queue0, batch_vars, ui_vars>>

NextQueue ==
  \/ Capture
  \/ AddRecording

SpecQueue == InitQueue /\ [][NextQueue]_vars

(***************************************************************************)
(* The interface: the checkboxes, the language selector, the Transcribe    *)
(* button, the display and the stored results.  The events of a session    *)
(* are handled one at a time: a handler returns, and its outputs are       *)
(* written to the components, before the next event is taken.              *)
(***************************************************************************)
MaxUploads == 1
MaxOps == 4

\* the paths the file component may hold: one that is no longer on disk
\* and a file that needs conversion
UploadPaths == {PyStr("gone.mp3"), PyStr("rec/b.mp3")}

UploadLists ==
  {PyNone} \cup {PyList(q) : q \in SeqsUpTo(UploadPaths, MaxUploads)}

\* the locals of transcribe_many when no call is running (ret keeps what
\* the last call returned)
NoBatchRunning ==
  /\ pc' = "idle"
  /\ now' = 0
  /\ i' = 0
  /\ results' = <<>>
  /\ temp_wav' = PyNone
  /\ source_path' = ""
  /\ exc' = NoExc
  /\ start' = 0
  /\ text' = ""
  /\ summary' = ""
  /\ calls' = <<>>

InitUI ==
  /\ file_input \in UploadLists
  /\ record_input = PyNone
  /\ record_status = ""
  /\ lang_select = LANG_DEFAULT
  /\ queue0 = file_input
  /\ appended = <<>>
  /\ last_add = [called |-> FALSE]
  /\ UiIdle
  /\ files = PyNone
  /\ summarize = FALSE
  /\ bullet_list = FALSE
  /\ lang = LANG_DEFAULT
  /\ ffmpeg \in FfmpegStates
  /\ tmpfiles = {}
  /\ tmp_seq = 0
  /\ now = 0
  /\ pc = "idle"
  /\ i = 0
  /\ results = <<>>
  /\ temp_wav = PyNone
  /\ source_path = ""
  /\ exc = NoExc
  /\ start = 0
  /\ text = ""
  /\ summary = ""
  /\ ret = NoRet
  /\ calls = <<>>

\* the user ticks or unticks the summary checkbox; no handler is attached
ToggleSummary ==
  /\ pc = "idle"
  /\ ops < MaxOps
  /\ summary_input' = ~summary_input
  /\ ops' = ops + 1
  /\ last_op' = "toggle"
  /\ UNCHANGED <<output_html, results_state, bullets_input, model_language,
                 batch_vars, queue_vars>>

\* the user ticks or unticks the bullets checkbox; no handler is attached
ToggleBullets ==
  /\ pc = "idle"
  /\ ops < MaxOps
  /\ bullets_input' = ~bullets_input
  /\ ops' = ops + 1
  /\ last_op' = "toggle"
  /\ UNCHANGED <<output_html, results_state, summary_input, model_language,
                 batch_vars, queue_vars>>

\* what _apply_language sets: the language of the model and the values of
\* the components it updates (labels left out)
_apply_language(l, f, s, b, res) ==
  [model_language |-> _asr_language(l),
   file_input |-> f,
   summary_input |-> s,
   bullets_input |-> b,
   output_html |-> _render_results(res, s, b, l),
   lang_select |-> l,
   record_status |-> ""]

\* lang_select.change: the user picks the other language of the dropdown;
\* inputs [lang_select, file_input, summary_input, bullets_input,
\* results_state]
SelectLanguage ==
  /\ pc = "idle"
  /\ ops < MaxOps
  /\ \E l \in LANG_CHOICES \ {lang_select} :
       LET r == _apply_language(l, file_input, summary_input, bullets_input,
                                results_state)
       IN /\ model_language' = r.model_language
          /\ file_input' = r.file_input
          /\ summary_input' = r.summary_input
          /\ bullets_input' = r.bullets_input
          /\ output_html' = r.output_html
          /\ lang_select' = r.lang_select
          /\ record_status' = r.record_status
  /\ ops' = ops + 1
  /\ last_op' = "language"
  /\ UNCHANGED <<results_state, record_input, queue0, appended, last_add,
                 batch_vars>>

\* transcribe_btn.click: transcribe_many is called with the values of
\* [file_input, summary_input, bullets_input, lang_select]
TranscribeClick ==
  /\ pc = "idle"
  /\ ops < MaxOps
  /\ files' = file_input
  /\ summarize' = summary_input
  /\ bullet_list' = bullets_input
  /\ lang' = lang_select
  /\ pc' = "start"
  /\ ret' = NoRet
  /\ ops' = ops + 1
  /\ last_op' = "transcribe"
  /\ UNCHANGED <<ffmpeg, tmpfiles, tmp_seq, now, i, results, temp_wav,
                 source_path, exc, start, text, summary, calls,
                 output_html, results_state, summary_input, bullets_input,
                 model_language, queue_vars>>

\* the tuple transcribe_many returned is written to
\* [output_html, results_state]
Deliver ==
  /\ pc = "done"
  /\ ret.returned
  /\ output_html' = ret.html
  /\ results_state' = ret.results
  /\ NoBatchRunning
  /\ UNCHANGED <<files, summarize, bullet_list, lang, ffmpeg, tmpfiles,
                 tmp_seq, ret, summary_input, bullets_input, model_language,
                 ops, last_op, queue_vars>>

NextUI ==
  \/ ToggleSummary
  \/ ToggleBullets
  \/ SelectLanguage
  \/ TranscribeClick
  \/ Start
  \/ Return
  \/ NotFound
  \/ BeginFile
  \/ Convert
  \/ Asr
  \/ Summary
  \/ Bullets
  \/ Except
  \/ Finally
  \/ Deliver

SpecUI == InitUI /\ [][NextUI]_vars

(***************************************************************************)
(* Properties of transcribe_many, checked under Spec.                      *)
(***************************************************************************)
Done == pc = "done" /\ ret.returned

\* the indices of the calls of kind op made for the k-th file
CallsOf(k, op) == {j \in 1..Len(calls) : calls[j].idx = k /\ calls[j].op = op}

HasField(r, f) == f \in DOMAIN r

HasPrefix(str, pre) ==
  IF Len(str) >= Len(pre) THEN SubSeq(str, 1, Len(pre)) = pre ELSE FALSE

\* the text of a path given as None or str
PathText(x) == IF x.kind = "str" THEN x.v ELSE ""

ConvertibleFile(x) ==
  IF Truthy(x)
  THEN x.v \in ExistingFiles /\ lower(splitext_ext(x.v)) # ".wav"
  ELSE FALSE

\* C1 as stated: a returned batch has one record per input path, the k-th
\* record carrying the base name of the k-th path.
C1_FileIsBaseNameOfPath ==
  (Done /\ Items # <<>>) =>
    /\ Len(ret.results) = Len(Items)
    /\ \A k \in 1..Len(Items) :
         IF k <= Len(ret.results)
         THEN ret.results[k].file = basename(PathText(Items[k]))
         ELSE FALSE

\* C1 amended: a returned batch has one record per input path, in input
\* order; the k-th record carries the base name of the k-th path, and the
\* base name of the localized default audio name when that path is None or
\* empty.
C1_OneRecordPerPath ==
  (Done /\ Items # <<>>) =>
    /\ Len(ret.results) = Len(Items)
    /\ \A k \in 1..Len(Items) :
         IF k <= Len(ret.results)
         THEN ret.results[k].file =
                IF Truthy(Items[k]) THEN basename(Items[k].v)
                ELSE basename(_get_text(lang).ui.default_audio_name)
         ELSE FALSE

C1_Witness ==
  /\ Done
  /\ Len(Items) = 2
  /\ Items[1] = PyNone
  /\ Items[2] = PyStr("rec/b.mp3")
  /\ Len(ret.results) = 2
  /\ ret.results[1].file = "audio"
  /\ ret.results[2].file = "b.mp3"
  /\ ret.results[2].seconds > 0

\* C2: no failure of one file aborts the batch.  An exception that reaches
\* the per-file handler is always caught; a returned batch has a record for
\* every path; the record of a file that failed (missing input, converter
\* missing, conversion failed, any other converter error, speech-recognition
\* error) carries the localized message of that failure; and every file on
\* disk, whatever happened to the files before it, was handed to the
\* converter or to speech recognition.
C2_FailureNeverAbortsBatch ==
  LET errors == _get_text(lang).errors
      te == errors.transcription_error
  IN /\ pc \in {"start", "loop", "convert", "asr", "summary", "bullets",
                "except", "finally", "done"}
     /\ pc = "except" => CaughtByBatch(exc)
     /\ Done =>
          /\ Len(ret.results) = Len(Items)
          /\ \A k \in 1..Len(Items) :
               IF k > Len(ret.results) THEN FALSE
               ELSE LET r == ret.results[k]
                    IN /\ FileMissing(Items[k]) => r.text = errors.file_not_found
                       /\ ~FileMissing(Items[k]) =>
                            CallsOf(k, "ffmpeg") \cup CallsOf(k, "asr") # {}
                       /\ \A j \in CallsOf(k, "ffmpeg") :
                            /\ calls[j].out = "FileNotFoundError" =>
                                 r.text = Format(te, errors.ffmpeg_not_found)
                            /\ calls[j].out = "CalledProcessError" =>
                                 r.text = Format(te, errors.wav_conversion_failed)
                            /\ calls[j].out # "ok" =>
                                 HasPrefix(r.text, te.pre) /\ r.seconds = 0
                       /\ \A j \in CallsOf(k, "asr") :
                            calls[j].out # "ok" =>
                              HasPrefix(r.text, te.pre) /\ r.seconds = 0

C2_Witness ==
  /\ Done
  /\ Len(Items) = 2
  /\ Len(ret.results) = 2
  /\ \E j \in CallsOf(1, "asr") : calls[j].out = "RuntimeError"
  /\ \E j \in CallsOf(2, "ffmpeg") : calls[j].out = "ok"
  /\ \E j \in CallsOf(2, "asr") : calls[j].out = "ok"
  /\ ret.results[2].seconds > 0
  /\ ret.results[2].text = "ciao mondo"

\* C3 as stated: when the batch has returned, the temporary directory holds
\* what it held before the batch (nothing), whatever happened to each file.
C3_NoTempFileLeft == Done => tmpfiles = {}

\* C4 as stated: the record of a path that is None, empty or not on disk
\* has the localized "file not found" message as text, 0 seconds, an empty
\* summary and empty bullets, and no call was made for that path.
C4_MissingPathRecord ==
  Done =>
    \A k \in 1..Len(Items) :
      FileMissing(Items[k]) =>
        IF k > Len(ret.results) THEN FALSE
        ELSE LET r == ret.results[k]
             IN /\ r.text = _get_text(lang).errors.file_not_found
                /\ r.seconds = 0
                /\ IF HasField(r, "summary") THEN r.summary = "" ELSE FALSE
                /\ IF HasField(r, "bullets") THEN r.bullets = "" ELSE FALSE
                /\ \A j \in 1..Len(calls) : calls[j].idx # k

\* C5 as stated: with the converter binary absent, the record of a file
\* on disk that needs conversion has the localized "ffmpeg not found"
\* message as text and speech recognition is not called for it.
C5_TextIsFfmpegNotFound ==
  (Done /\ ffmpeg = "absent" /\ Len(Items) = 1) =>
    (ConvertibleFile(Items[1]) =>
       /\ Len(ret.results) = 1
       /\ ret.results[1].text = _get_text(lang).errors.ffmpeg_not_found
       /\ CallsOf(1, "asr") = {})

\* C5 amended: with the converter binary absent, the record of a file on
\* disk that needs conversion has as text the localized
\* conversion/transcription error message with the localized "ffmpeg not
\* found" message as its detail, 0 seconds, and speech recognition is not
\* called for it; a batch of one such file returns that single record.
C5_FfmpegNotFoundEmbedded ==
  (Done /\ ffmpeg = "absent") =>
    /\ Len(ret.results) = Len(Items)
    /\ \A k \in 1..Len(Items) :
         ConvertibleFile(Items[k]) =>
           IF k > Len(ret.results) THEN FALSE
           ELSE /\ ret.results[k].text =
                     Format(_get_text(lang).errors.transcription_error,
                            _get_text(lang).errors.ffmpeg_not_found)
                /\ ret.results[k].seconds = 0
                /\ CallsOf(k, "asr") = {}

C5_Witness ==
  /\ Done
  /\ ffmpeg = "absent"
  /\ lang = "en"
  /\ Items = <<PyStr("rec/b.mp3")>>
  /\ Len(ret.results) = 1
  /\ ret.results[1].text
       = "Error during conversion/transcription: ffmpeg not found for WAV conversion."
  /\ \E j \in CallsOf(1, "ffmpeg") : calls[j].out = "FileNotFoundError"

\* C6 as stated: when a text-generation call for a requested mode fails in
\* any way, the record of that file keeps the non-empty transcript and the
\* measured elapsed time, the field of that mode is empty and no error
\* message appears in the record.
C6_EnrichmentBestEffort ==
  Done =>
    \A j \in 1..Len(calls) :
      (calls[j].op \in {"summary", "bullets"} /\ calls[j].out # "ok") =>
        IF calls[j].idx > Len(ret.results) THEN FALSE
        ELSE LET r == ret.results[calls[j].idx]
             IN /\ \E a \in CallsOf(calls[j].idx, "asr") :
                     /\ calls[a].out = "ok"
                     /\ r.text = strip(calls[a].val)
                /\ r.text # ""
                /\ r.seconds > 0
                /\ r[calls[j].op] = ""

\* C7: a text-generation call is made for a mode on a file only if that
\* mode was requested and speech recognition returned, for that file, a
\* text that is not empty once stripped; a file whose transcript is empty
\* gets no text-generation call and a record with empty summary and bullets.
C7_EnrichmentOnlyWhenRequestedAndText ==
  /\ \A j \in 1..Len(calls) :
       calls[j].op \in {"summary", "bullets"} =>
         /\ calls[j].op = "summary" => summarize
         /\ calls[j].op = "bullets" => bullet_list
         /\ \E a \in CallsOf(calls[j].idx, "asr") :
              a < j /\ calls[a].out = "ok" /\ strip(calls[a].val) # ""
  /\ \A a \in 1..Len(calls) :
       (calls[a].op = "asr" /\ calls[a].out = "ok" /\ strip(calls[a].val) = "") =>
         /\ CallsOf(calls[a].idx, "summary") = {}
         /\ CallsOf(calls[a].idx, "bullets") = {}
         /\ Len(results) >= calls[a].idx =>
              /\ results[calls[a].idx].text = ""
              /\ results[calls[a].idx].summary = ""
              /\ results[calls[a].idx].bullets = ""

C7_Witness ==
  /\ Done
  /\ summarize
  /\ bullet_list
  /\ Len(ret.results) = 2
  /\ \E a \in CallsOf(1, "asr") : calls[a].out = "ok" /\ calls[a].val = " \n"
  /\ ret.results[1].text = ""
  /\ ret.results[1].seconds > 0
  /\ CallsOf(1, "summary") \cup CallsOf(1, "bullets") = {}
  /\ CallsOf(2, "summary") # {}
  /\ CallsOf(2, "bullets") # {}
  /\ ret.results[2].summary = "punti chiave"

\* C8 as stated: when a mode is disabled, its field is the empty string in
\* every record of a returned batch, on every path.
C8_DisabledFieldEmpty ==
  Done =>
    \A k \in 1..Len(ret.results) :
      /\ ~summarize =>
           IF HasField(ret.results[k], "summary")
           THEN ret.results[k].summary = "" ELSE FALSE
      /\ ~bullet_list =>
           IF HasField(ret.results[k], "bullets")
           THEN ret.results[k].bullets = "" ELSE FALSE

\* the five keys of a result record
RecordFields == {"file", "text", "summary", "bullets", "seconds"}

\* C12 as stated: every record of a returned batch has the five fields
\* file, text, summary, bullets and seconds, whichever path produced it
\* (file not found, conversion error, transcription error, success).
C12_SameFiveFields ==
  Done => \A k \in 1..Len(ret.results) : DOMAIN ret.results[k] = RecordFields

\* the place of a call in the processing of one file
OpRank(op) ==
  CASE op = "ffmpeg" -> 1
    [] op = "asr" -> 2
    [] op = "summary" -> 3
    [] op = "bullets" -> 4
    [] op = "remove" -> 5

\* the calls of a batch are made file after file, and for one file in the
\* order conversion, speech recognition, summary, bullets, deletion
CallsInOrder ==
  \A a, b \in 1..Len(calls) :
    a < b =>
      \/ calls[a].idx < calls[b].idx
      \/ calls[a].idx = calls[b].idx /\ OpRank(calls[a].op) < OpRank(calls[b].op)

\* a temporary file read by speech recognition was created by a conversion
\* of the same file made before, is on disk while it is read, and is deleted
\* afterwards, before the next file
TempFileAroundAsr ==
  /\ (pc = "asr" /\ Truthy(temp_wav)) => source_path \in tmpfiles
  /\ \A a \in 1..Len(calls) :
       (calls[a].op = "asr" /\ calls[a].arg \notin ExistingFiles) =>
         /\ \E c \in CallsOf(calls[a].idx, "ffmpeg") :
              c < a /\ calls[c].out = "ok" /\ calls[c].hint = calls[a].arg
         /\ (i > calls[a].idx \/ Done) =>
              \E d \in CallsOf(calls[a].idx, "remove") :
                d > a /\ calls[d].arg = calls[a].arg

\* C14 as stated: the calls of file i (conversion, speech recognition,
\* summary, bullets, deletion of the temporary file) are made in that order
\* and before any call of file i+1; at most one temporary conversion file
\* exists at any moment; a temporary file is created before and deleted
\* after the speech-recognition call that reads it.
C14_StrictlySequential ==
  /\ CallsInOrder
  /\ TempFileAroundAsr
  /\ Cardinality(tmpfiles) <= 1

\* C15 as stated: the language hint of every speech-recognition call is a
\* fixed function of the interface language code of the batch, and for a
\* code outside the supported set the hint, the prompts and the messages
\* are those of the default language.
C15_UnknownCodeFallsBackToDefault ==
  /\ \A j \in 1..Len(calls) :
       /\ calls[j].op = "asr" => calls[j].hint = _asr_language(lang)
       /\ lang \notin LANG_CHOICES =>
            /\ calls[j].op = "asr" => calls[j].hint = _asr_language(LANG_DEFAULT)
            /\ calls[j].op = "summary" =>
                 HasPrefix(calls[j].arg, TEXTS[LANG_DEFAULT].prompts.summary.pre)
            /\ calls[j].op = "bullets" =>
                 HasPrefix(calls[j].arg, TEXTS[LANG_DEFAULT].prompts.bullets.pre)
  /\ (Done /\ lang \notin LANG_CHOICES) =>
       \A k \in 1..Len(Items) :
         (FileMissing(Items[k]) /\ k <= Len(ret.results)) =>
           ret.results[k].text = TEXTS[LANG_DEFAULT].errors.file_not_found

(***************************************************************************)
(* Properties of add_recording_to_queue, checked under SpecQueue.          *)
(***************************************************************************)
\* the entries of a file list given as None or as a list
EntriesOf(f) == IF f.kind = "list" THEN f.items ELSE <<>>

Resolvable(entry) ==
  CASE entry.kind = "str" -> TRUE
    [] entry.kind = "dict" -> entry.path # "" \/ entry.name # "" \/ entry.file # ""
    [] OTHER -> FALSE

ResolvedPath(entry) ==
  IF entry.kind = "dict"
  THEN PyStr(IF entry.path # "" THEN entry.path
             ELSE IF entry.name # "" THEN entry.name ELSE entry.file)
  ELSE entry

\* the resolved paths of the resolvable entries, in order
ResolvedList(f) ==
  LET kept == SelectSeq(EntriesOf(f), Resolvable)
  IN [k \in 1..Len(kept) |-> ResolvedPath(kept[k])]

NoCapture(recording) ==
  CASE recording.kind = "none" -> TRUE
    [] recording.kind = "str" -> recording.v = ""
    [] recording.kind = "dict" ->
         recording.path = "" /\ recording.name = "" /\ recording.file = ""
    [] OTHER -> TRUE

\* C9 as stated: a call with no capture returns the existing file list
\* unchanged, same entries in the same order, and the localized "nothing to
\* add" status.
C9_ListUnchanged ==
  (last_add.called /\ NoCapture(last_add.recording)) =>
    /\ last_add.out_files.items = EntriesOf(last_add.files)
    /\ last_add.status = _get_text(last_add.lang).ui.record_missing

\* C9 amended: a call with no capture returns the existing file list
\* normalized (bare paths kept as they are, a record replaced by the path it
\* resolves to, every other entry dropped, None giving the empty list), in
\* the same order, and the localized "nothing to add" status; a list of
\* bare paths is returned unchanged.
C9_ListNormalized ==
  (last_add.called /\ NoCapture(last_add.recording)) =>
    /\ last_add.out_files = PyList(ResolvedList(last_add.files))
    /\ last_add.status = _get_text(last_add.lang).ui.record_missing
    /\ (\A k \in 1..Len(EntriesOf(last_add.files)) :
          EntriesOf(last_add.files)[k].kind = "str")
         => last_add.out_files.items = EntriesOf(last_add.files)
    /\ file_input = last_add.out_files

C9_Witness ==
  /\ last_add.called
  /\ last_add.recording = PyDict("", "", "")
  /\ last_add.files = PyList(<<PyStr("rec/a.WAV"), PyDict("up/c.mp3", "c.mp3", "")>>)
  /\ last_add.out_files = PyList(<<PyStr("rec/a.WAV"), PyStr("up/c.mp3")>>)
  /\ last_add.lang = "en"
  /\ last_add.status = "No recording to add."

\* the path a capture resolves to
CapturePath(recording) ==
  IF recording.kind = "dict"
  THEN (IF recording.path # "" THEN recording.path
        ELSE IF recording.name # "" THEN recording.name ELSE recording.file)
  ELSE recording.v

\* C10 as stated: a call with a capture returns the existing file list
\* with the capture's path appended, and the "added" status naming the base
\* name of the capture; n additions to a list of k entries give k+n entries.
C10_AppendedToExistingList ==
  /\ (last_add.called /\ ~NoCapture(last_add.recording)) =>
       /\ last_add.out_files.items
            = Append(EntriesOf(last_add.files),
                     PyStr(CapturePath(last_add.recording)))
       /\ last_add.status
            = Format(_get_text(last_add.lang).ui.record_added,
                     basename(CapturePath(last_add.recording)))
  /\ (last_add.called /\ ~NoCapture(last_add.recording)) =>
       Len(EntriesOf(file_input)) = Len(EntriesOf(queue0)) + Len(appended)

\* C10 amended: a call with a capture returns the normalized existing file
\* list (every resolvable entry kept, in order, as its path) with the
\* capture's path appended as the last element, and the "added" status
\* naming the base name of the capture; after n additions to a list with k
\* resolvable entries the queue is those k paths followed by the n
\* captures in the order they were added.
C10_AppendedToNormalizedList ==
  /\ (last_add.called /\ ~NoCapture(last_add.recording)) =>
       /\ last_add.out_files.items
            = Append(ResolvedList(last_add.files),
                     PyStr(CapturePath(last_add.recording)))
       /\ last_add.status
            = Format(_get_text(last_add.lang).ui.record_added,
                     basename(CapturePath(last_add.recording)))
  /\ last_add.called =>
       /\ file_input = PyList(ResolvedList(queue0) \o appended)
       /\ Len(file_input.items) = Len(ResolvedList(queue0)) + Len(appended)

C10_Witness ==
  /\ last_add.called
  /\ queue0 = PyList(<<PyDict("", "up/d.ogg", ""), PyStr("rec/a.WAV")>>)
  /\ Len(appended) = 2
  /\ last_add.recording = PyDict("", "", "/tmp/gradio/mic/take2.wav")
  /\ last_add.lang = "fr"
  /\ last_add.status = "Registrazione aggiunta alla coda: take2.wav"
  /\ file_input = PyList(<<PyStr("up/d.ogg"), PyStr("rec/a.WAV"),
                           PyStr("/tmp/gradio/mic/audio.wav"),
                           PyStr("/tmp/gradio/mic/take2.wav")>>)

\* what _normalize_files returned inside the last add_recording_to_queue
\* call: the list returned, without the capture appended to it
NormalizerOutput ==
  IF NoCapture(last_add.recording) THEN last_add.out_files.items
  ELSE SubSeq(last_add.out_files.items, 1, Len(last_add.out_files.items) - 1)

\* C13 as stated: the normalizer returns, in order, the resolved paths of
\* exactly the resolvable entries (a bare path itself, a record its first
\* non-empty value among path, name, file; any other entry nothing), and no
\* element of its output is null or empty.
C13_ResolvedNonEmptyPaths ==
  last_add.called =>
    /\ NormalizerOutput = ResolvedList(last_add.files)
    /\ \A k \in 1..Len(NormalizerOutput) :
         IF NormalizerOutput[k].kind = "str"
         THEN NormalizerOutput[k].v # "" ELSE FALSE

(***************************************************************************)
(* Properties of the interface, checked under SpecUI.                      *)
(***************************************************************************)
\* no handler is running: the components hold what the last one wrote
Settled == pc = "idle"

\* the number of cards on the display
CardsShown == IF output_html.kind = "grid" THEN Len(output_html.cards) ELSE 0

\* the titles of the panes of a displayed card, in order
PaneTitles(card) == [p \in 1..Len(card.panes) |-> card.panes[p].title]

\* the titles of the panes of a card rendered in language l for a batch
\* that requested the summary (s) and the bullets (b)
RequestedPaneTitles(s, b, l) ==
  LET ui == _get_text(l).ui
  IN <<ui.pane_transcription_title>>
     \o (IF s THEN <<ui.pane_summary_title>> ELSE <<>>)
     \o (IF b THEN <<ui.pane_bullets_title>> ELSE <<>>)

\* C11 as stated: an empty result list is rendered as the localized
\* empty-results message, both when transcribe_many was called with no
\* files and when a language switch re-rendered an empty result state.
C11_EmptyListRendersMessage ==
  (Settled /\ last_op \in {"transcribe", "language"} /\ results_state = <<>>) =>
    output_html = [kind |-> "text",
                   value |-> _get_text(lang_select).ui.empty_results]

\* C16 as stated: whatever the sequence of batches, checkbox toggles and
\* language switches, the display shows one card per stored result, the
\* stored results are those the last batch returned (a language switch
\* leaves them as they are), and every card shows the transcription pane
\* and the summary and bullets panes of the flags the batch that produced
\* the results was run with.
C16_DisplayMatchesStoredResults ==
  Settled =>
    /\ CardsShown = Len(results_state)
    /\ results_state = ret.results
    /\ \A k \in 1..CardsShown :
         PaneTitles(output_html.cards[k])
           = RequestedPaneTitles(summarize, bullet_list, lang_select)

====
